---- MODULE Spec2Model ----
(***************************************************************************)
(* A model of the ItBit and HuobiHadax exchange wrappers of               *)
(* gocryptotrader: the fetch-or-refresh market data calls, order          *)
(* submission, the capability stubs, and the rate limited requester the   *)
(* wrappers construct.  Strings that the code parses or formats are       *)
(* sequences of one-character strings; amounts and prices are naturals.   *)
(***************************************************************************)
EXTENDS Integers, Sequences, FiniteSets, TLC

VARIABLES
  tickers,      \* the ticker package's store: (exchange, pair, asset) -> ticker.Price
  orderbooks,   \* the orderbook package's store: (exchange, pair, asset) -> orderbook.Base
  call,         \* the last completed wrapper call: its arguments, requests and results
  pc,           \* racing callers: position of each caller inside its wrapper call
  local,        \* racing callers: the local variables of each caller's call
  bucket,       \* requester: requests admitted in the current window, per venue and class
  mutex,        \* requester: the holder of each venue's lock, or NoCaller
  job,          \* requester: each caller's request: venue, class, position
  exch,         \* each adapter: features, enabled pairs, its background task
  wg            \* the host: its wait group's counter and its own position

vars == <<tickers, orderbooks, call, pc, local, bucket, mutex, job, exch, wg>>

-----------------------------------------------------------------------------
(* Bounds of the model. *)

MaxWallets == 2     \* longest wallet list a venue returns
AuthRate == 2       \* requests per window, authenticated (stands for *AuthRate)
UnauthRate == 1     \* requests per window, unauthenticated (stands for *UnauthRate)

-----------------------------------------------------------------------------
(* Names, pairs and asset types. *)

ItBitName == "ITBIT"
HuobiName == "HuobiHadax"
Venues == {ItBitName, HuobiName}

BTCUSD == [FirstCurrency |-> "BTC", SecondCurrency |-> "USD"]
LTCUSD == [FirstCurrency |-> "LTC", SecondCurrency |-> "USD"]
Pairs == {BTCUSD, LTCUSD}
NoPair == [FirstCurrency |-> "", SecondCurrency |-> ""]

AssetTypeSpot == "spot"
AssetTypes == {AssetTypeSpot}

\* The pairs traded at each venue.
VenuePairs(v) == IF v = ItBitName THEN {BTCUSD, LTCUSD} ELSE {BTCUSD}

Keys == {k \in Venues \X Pairs \X AssetTypes : k[2] \in VenuePairs(k[1])}

-----------------------------------------------------------------------------
(* Errors.  Every error is a record, nil included, so that any two can be   *)
(* compared.                                                                *)

Err(kind) == [kind |-> kind, currency |-> "", amount |-> 0]
Nil == Err("nil")
ErrFunctionNotSupported == Err("ErrFunctionNotSupported")
ErrNotYetImplemented == Err("ErrNotYetImplemented")
ErrTransport == Err("transport")
ErrVenue == Err("venue")
ErrNotFound == Err("not found")
ErrSyntax == Err("strconv syntax")
ErrRange == Err("strconv range")

-----------------------------------------------------------------------------
(* strconv: strings are sequences of characters. *)

DigitChars == <<"0", "1", "2", "3", "4", "5", "6", "7", "8", "9">>

DigitVal(c) == CHOOSE d \in 0..9 : DigitChars[d + 1] = c

IsDigit(c) == \E d \in 0..9 : DigitChars[d + 1] = c

RECURSIVE DigitsValue(_, _, _)
DigitsValue(s, base, acc) ==
  IF s = <<>> THEN acc
  ELSE DigitsValue(Tail(s), base, acc * base + DigitVal(Head(s)))

AllDigitsBelow(s, base) ==
  \A k \in 1..Len(s) : IsDigit(s[k]) /\ DigitVal(s[k]) < base

\* The largest finite float64, scaled down, and what stands for +Inf.
MaxFloat64 == 99
Inf == MaxFloat64 + 1

\* strconv.ParseFloat on the strings a depth payload carries: an unsigned
\* decimal integer converts to its value, or to +Inf with a range error when
\* it is beyond the largest finite value; anything else is a syntax error
\* with the value 0.
ParseFloat(s) ==
  IF s # <<>> /\ AllDigitsBelow(s, 10)
  THEN IF DigitsValue(s, 10, 0) > MaxFloat64
       THEN [val |-> Inf, err |-> ErrRange]
       ELSE [val |-> DigitsValue(s, 10, 0), err |-> Nil]
  ELSE [val |-> 0, err |-> ErrSyntax]

\* strconv.ParseInt(s, base, 64) for base 10 and base 0 (a leading "0"
\* selects octal); a syntax error yields the value 0.
ParseInt(s, base) ==
  LET octal == base = 0 /\ Len(s) > 1 /\ s[1] = "0"
      b == IF octal THEN 8 ELSE 10
      digits == IF octal THEN Tail(s) ELSE s
  IN IF digits # <<>> /\ AllDigitsBelow(digits, b)
     THEN [val |-> DigitsValue(digits, b, 0), err |-> Nil]
     ELSE [val |-> 0, err |-> ErrSyntax]

RECURSIVE FormatDigits(_)
FormatDigits(n) ==
  IF n < 10 THEN <<DigitChars[n + 1]>>
  ELSE Append(FormatDigits(n \div 10), DigitChars[(n % 10) + 1])

\* fmt.Sprintf("%v", n) of a non-negative integer.
SprintfInt(n) == FormatDigits(n)

-----------------------------------------------------------------------------
(* The ticker and orderbook packages: one keyed store each.               *)

NoEntry == [present |-> FALSE]

ZeroPrice ==
  [Pair |-> NoPair, Ask |-> 0, Bid |-> 0, Last |-> 0, High |-> 0, Low |-> 0,
   Volume |-> 0]

ZeroBase == [Bids |-> <<>>, Asks |-> <<>>]

Entry(v) == [present |-> TRUE, value |-> v]

\* ticker.ProcessTicker: the snapshot replaces whatever the key held.
ProcessTicker(store, exchangeName, p, tickerNew, tickerType) ==
  [store EXCEPT ![<<exchangeName, p, tickerType>>] = Entry(tickerNew)]

\* ticker.GetTicker: the stored snapshot, or an error when the key holds none.
GetTicker(store, exchangeName, p, tickerType) ==
  LET e == store[<<exchangeName, p, tickerType>>]
  IN IF e.present THEN [val |-> e.value, err |-> Nil]
     ELSE [val |-> ZeroPrice, err |-> ErrNotFound]

\* orderbook.ProcessOrderbook: the book replaces whatever the key held.
ProcessOrderbook(store, exchangeName, p, orderbookNew, orderbookType) ==
  [store EXCEPT ![<<exchangeName, p, orderbookType>>] = Entry(orderbookNew)]

\* orderbook.GetOrderbook: the stored book, or an error when the key holds none.
GetOrderbook(store, exchangeName, p, orderbookType) ==
  LET e == store[<<exchangeName, p, orderbookType>>]
  IN IF e.present THEN [val |-> e.value, err |-> Nil]
     ELSE [val |-> ZeroBase, err |-> ErrNotFound]

-----------------------------------------------------------------------------
(* What the venues answer.  A request either fails in transport or yields  *)
(* one of the venue's payloads.                                             *)

S(n) == FormatDigits(n)
Unparsable == <<"x">>
Overflowing == S(MaxFloat64 + 1)

ItBitZeroTick ==
  [Ask |-> 0, Bid |-> 0, LastPrice |-> 0, High24h |-> 0, Low24h |-> 0,
   Volume24h |-> 0]

ItBitTicks ==
  { [Ask |-> 11, Bid |-> 10, LastPrice |-> 10, High24h |-> 12, Low24h |-> 9,
     Volume24h |-> 5],
    [Ask |-> 21, Bid |-> 20, LastPrice |-> 20, High24h |-> 22, Low24h |-> 19,
     Volume24h |-> 6] }

HuobiZeroTick ==
  [Low |-> 0, Close |-> 0, Volume |-> 0, High |-> 0, Ask |-> <<>>, Bid |-> <<>>]

HuobiTicks ==
  { [Low |-> 29, Close |-> 30, Volume |-> 7, High |-> 32, Ask |-> <<31, 2>>,
     Bid |-> <<30, 1>>],
    [Low |-> 39, Close |-> 40, Volume |-> 8, High |-> 42, Ask |-> <<>>,
     Bid |-> <<>>] }

ItBitZeroDepth == [Bids |-> <<>>, Asks |-> <<>>]

ItBitDepths ==
  { [Bids |-> << <<S(10), S(2)>>, <<S(9), S(1)>> >>,
     Asks |-> << <<S(11), S(3)>> >>],
    [Bids |-> << <<Unparsable, S(4)>>, <<S(8), S(1)>> >>,
     Asks |-> << <<S(12), Overflowing>>, <<S(13), S(5)>> >>] }

HuobiZeroDepth == [Bids |-> <<>>, Asks |-> <<>>]

HuobiDepths ==
  { [Bids |-> << <<30, 2>>, <<29, 1>> >>, Asks |-> << <<31, 3>> >>],
    [Bids |-> << <<40, 4>> >>, Asks |-> << <<41, 1>>, <<42, 5>> >>] }

TickerAnswers(v) ==
  IF v = ItBitName
  THEN {[err |-> ErrTransport, tick |-> ItBitZeroTick]}
         \cup {[err |-> Nil, tick |-> t] : t \in ItBitTicks}
  ELSE {[err |-> ErrTransport, tick |-> HuobiZeroTick]}
         \cup {[err |-> Nil, tick |-> t] : t \in HuobiTicks}

DepthAnswers(v) ==
  IF v = ItBitName
  THEN {[err |-> ErrTransport, depth |-> ItBitZeroDepth]}
         \cup {[err |-> Nil, depth |-> d] : d \in ItBitDepths}
  ELSE {[err |-> ErrTransport, depth |-> HuobiZeroDepth]}
         \cup {[err |-> Nil, depth |-> d] : d \in HuobiDepths}

Request(name, arg) == [name |-> name, arg |-> arg]

-----------------------------------------------------------------------------
(* The wrappers' conversions of a venue payload into a snapshot.           *)

\* ItBit.UpdateTicker, the fields copied from the venue's ticker.
ItBitTickerPrice(p, tick) ==
  [Pair |-> p, Ask |-> tick.Ask, Bid |-> tick.Bid, Last |-> tick.LastPrice,
   High |-> tick.High24h, Low |-> tick.Low24h, Volume |-> tick.Volume24h]

\* A conversion that starts from the cached snapshot instead of a zero one:
\* Ask and Bid keep their cached values when the venue's arrays are empty.
HuobiTickerPriceOverCached(p, tick) ==
  LET e == tickers[<<HuobiName, p, AssetTypeSpot>>]
      base == IF e.present THEN e.value ELSE ZeroPrice
  IN [Pair |-> p, Low |-> tick.Low, Last |-> tick.Close,
      Volume |-> tick.Volume, High |-> tick.High,
      Ask |-> IF Len(tick.Ask) > 0 THEN tick.Ask[1] ELSE base.Ask,
      Bid |-> IF Len(tick.Bid) > 0 THEN tick.Bid[1] ELSE base.Bid]

\* HUOBIHADAX.UpdateTicker: Ask and Bid are taken from the first element of
\* the venue's arrays and stay zero when the array is empty.
HuobiTickerPrice(p, tick) ==
  [Pair |-> p, Low |-> tick.Low, Last |-> tick.Close, Volume |-> tick.Volume,
   High |-> tick.High,
   Ask |-> IF Len(tick.Ask) > 0 THEN tick.Ask[1] ELSE 0,
   Bid |-> IF Len(tick.Bid) > 0 THEN tick.Bid[1] ELSE 0]

TickerPrice(v, p, tick) ==
  IF v = ItBitName THEN ItBitTickerPrice(p, tick) ELSE HuobiTickerPrice(p, tick)

\* ItBit.UpdateOrderbook, one level: both strings are parsed, a failure is
\* logged and the value ParseFloat returned is used.
ItBitItem(data) ==
  [Amount |-> ParseFloat(data[2]).val, Price |-> ParseFloat(data[1]).val]

ItBitItems(levels) == [x \in 1..Len(levels) |-> ItBitItem(levels[x])]

ItBitBase(depth) ==
  [Bids |-> ItBitItems(depth.Bids), Asks |-> ItBitItems(depth.Asks)]

\* HUOBIHADAX.UpdateOrderbook, one level: the venue's numbers are copied.
HuobiItem(data) == [Amount |-> data[2], Price |-> data[1]]

HuobiItems(levels) == [x \in 1..Len(levels) |-> HuobiItem(levels[x])]

HuobiBase(depth) ==
  [Bids |-> HuobiItems(depth.Bids), Asks |-> HuobiItems(depth.Asks)]

OrderbookBase(v, depth) ==
  IF v = ItBitName THEN ItBitBase(depth) ELSE HuobiBase(depth)

-----------------------------------------------------------------------------
(* The market data calls, each as the function of the store and of the     *)
(* venue's answer that the wrapper computes.                                *)

TickerRequestName(v) ==
  IF v = ItBitName THEN "GetTicker" ELSE "GetMarketDetailMerged"

DepthRequestName(v) ==
  IF v = ItBitName THEN "GetOrderbook" ELSE "GetDepth"

\* A refresh that is skipped when the key already holds a snapshot.
UpdateTickerUnlessCached(v, store, p, assetType, r) ==
  LET cached == GetTicker(store, v, p, assetType)
  IN IF cached.err = Nil
     THEN [store |-> store, ret |-> cached.val, err |-> Nil, net |-> <<>>]
     ELSE IF r.err # Nil
     THEN [store |-> store, ret |-> ZeroPrice, err |-> r.err,
           net |-> <<Request(TickerRequestName(v), p)>>]
     ELSE [store |-> ProcessTicker(store, v, p, TickerPrice(v, p, r.tick),
                                   assetType),
           ret |-> TickerPrice(v, p, r.tick), err |-> Nil,
           net |-> <<Request(TickerRequestName(v), p)>>]

\* UpdateTicker of both wrappers: request, convert, store, read back.
UpdateTicker(v, store, p, assetType, r) ==
  LET net == <<Request(TickerRequestName(v), p)>>
  IN IF r.err # Nil
     THEN [store |-> store, ret |-> ZeroPrice, err |-> r.err, net |-> net]
     ELSE LET stored == ProcessTicker(store, v, p, TickerPrice(v, p, r.tick),
                                      assetType)
              got == GetTicker(stored, v, p, assetType)
          IN [store |-> stored, ret |-> got.val, err |-> got.err, net |-> net]

\* A fetch that refreshes whether or not the key holds a snapshot.
FetchTickerAlwaysRefresh(v, store, p, assetType, r) ==
  UpdateTicker(v, store, p, assetType, r)

\* FetchTicker of both wrappers: the cached snapshot, or UpdateTicker when
\* the lookup fails.
FetchTicker(v, store, p, assetType, r) ==
  LET tickerNew == GetTicker(store, v, p, assetType)
  IN IF tickerNew.err # Nil
     THEN UpdateTicker(v, store, p, assetType, r)
     ELSE [store |-> store, ret |-> tickerNew.val, err |-> Nil, net |-> <<>>]

\* A refresh that stores an empty book when the venue request fails.
UpdateOrderbookStoresFailure(v, store, p, assetType, r) ==
  LET net == <<Request(DepthRequestName(v), p)>>
      base == IF r.err # Nil THEN ZeroBase ELSE OrderbookBase(v, r.depth)
      stored == ProcessOrderbook(store, v, p, base, assetType)
      got == GetOrderbook(stored, v, p, assetType)
  IN [store |-> stored, ret |-> got.val,
      err |-> IF r.err # Nil THEN r.err ELSE got.err, net |-> net]

\* UpdateOrderbook of both wrappers: request, convert, store, read back.
UpdateOrderbook(v, store, p, assetType, r) ==
  LET net == <<Request(DepthRequestName(v), p)>>
  IN IF r.err # Nil
     THEN [store |-> store, ret |-> ZeroBase, err |-> r.err, net |-> net]
     ELSE LET stored == ProcessOrderbook(store, v, p,
                                         OrderbookBase(v, r.depth), assetType)
              got == GetOrderbook(stored, v, p, assetType)
          IN [store |-> stored, ret |-> got.val, err |-> got.err, net |-> net]

\* A fetch that refreshes whether or not the key holds a book.
FetchOrderbookAlwaysRefresh(v, store, p, assetType, r) ==
  UpdateOrderbook(v, store, p, assetType, r)

\* FetchOrderbook of both wrappers: the cached book, or UpdateOrderbook when
\* the lookup fails.
FetchOrderbook(v, store, p, assetType, r) ==
  LET ob == GetOrderbook(store, v, p, assetType)
  IN IF ob.err # Nil
     THEN UpdateOrderbook(v, store, p, assetType, r)
     ELSE [store |-> store, ret |-> ob.val, err |-> Nil, net |-> <<>>]

-----------------------------------------------------------------------------
(* State at rest and the market data actions.                               *)

Callers == {"caller-1", "caller-2"}
NoCaller == "nobody"
Classes == {"auth", "unauth"}

\* request.NewRateLimit: a limit of `rate` requests per `duration` seconds.
\* Each call makes a limit of its own; `id` stands for its identity.
NewRateLimit(id, duration, rate) ==
  [id |-> id, Duration |-> duration, Rate |-> rate]

\* request.New(name, authLimit, unauthLimit, httpRequester).
New(name, authLimit, unauthLimit) ==
  [Name |-> name, AuthLimit |-> authLimit, UnauthLimit |-> unauthLimit]

LimitIds == {"limit-1", "limit-2"}

\* A requester whose two credential classes are given one and the same limit.
ItBitRequesterOneLimit ==
  LET l == NewRateLimit("limit-1", 1, AuthRate)
  IN New(ItBitName, l, [l EXCEPT !.Rate = UnauthRate])

\* ItBit.SetDefaults: the requester, one limit per credential class.
ItBitRequester ==
  New(ItBitName, NewRateLimit("limit-1", 1, AuthRate),
      NewRateLimit("limit-2", 1, UnauthRate))

\* HUOBIHADAX.SetDefaults: the requester, one limit per credential class.
HuobiRequester ==
  New(HuobiName, NewRateLimit("limit-1", 10, AuthRate),
      NewRateLimit("limit-2", 10, UnauthRate))

Requester(v) == IF v = ItBitName THEN ItBitRequester ELSE HuobiRequester

\* The limit a request of a credential class is counted against.
LimitOf(v, class) ==
  IF class = "auth" THEN Requester(v).AuthLimit ELSE Requester(v).UnauthLimit

\* A venue's window state: requests counted against each limit, and the
\* requests of each class admitted in the current window.
EmptyBuckets ==
  [used |-> [l \in LimitIds |-> 0], admitted |-> [c \in Classes |-> 0]]

\* SetDefaults: the auto pair update feature, as supported and as enabled.
ItBitFeatures ==
  [Supports |-> [AutoPairUpdates |-> FALSE],
   Enabled |-> [AutoPairUpdates |-> FALSE]]

HuobiFeatures ==
  [Supports |-> [AutoPairUpdates |-> TRUE],
   Enabled |-> [AutoPairUpdates |-> TRUE]]

Features(v) == IF v = ItBitName THEN ItBitFeatures ELSE HuobiFeatures

\* A pair of the catalogue, as the string base + "-" + quote.
PairName(base, quote) == <<base, "-", quote>>

\* The pairs an adapter holds before any refresh.
ConfiguredPairs == {PairName("ltc", "btc")}

\* An adapter after SetDefaults and Setup, its background task not started:
\* `task` is the task's position, `signalled` counts its wg.Done() calls,
\* `runRequests` the symbol catalogue requests Run has issued.
Adapter(v) ==
  [Features |-> Features(v), EnabledPairs |-> ConfiguredPairs,
   task |-> "none", signalled |-> 0, runRequests |-> 0]

\* The host before it starts any adapter: a wait group with counter 0.
NoWaitGroup == [count |-> 0, host |-> "starting"]

NoCall == [op |-> "none"]
NoLocal == [op |-> "none", venue |-> ItBitName]
NoJob == [at |-> "idle"]

Init ==
  /\ tickers = [k \in Keys |-> NoEntry]
  /\ orderbooks = [k \in Keys |-> NoEntry]
  /\ call = NoCall
  /\ pc = [c \in Callers |-> "idle"]
  /\ local = [c \in Callers |-> NoLocal]
  /\ bucket = [v \in Venues |-> EmptyBuckets]
  /\ mutex = [v \in Venues |-> NoCaller]
  /\ job = [c \in Callers |-> NoJob]
  /\ exch = [v \in Venues |-> Adapter(v)]
  /\ wg = NoWaitGroup

MarketCall(op, v, p, a, r, hit, out) ==
  [op |-> op, venue |-> v, pair |-> p, asset |-> a, answer |-> r, hit |-> hit,
   ret |-> out.ret, err |-> out.err, net |-> out.net]

UpdateTickerCall ==
  \E <<v, p, a>> \in Keys :
    \E r \in TickerAnswers(v) :
      LET out == UpdateTicker(v, tickers, p, a, r)
      IN /\ tickers' = out.store
         /\ call' = MarketCall("UpdateTicker", v, p, a, r,
                               tickers[<<v, p, a>>].present, out)
         /\ UNCHANGED <<orderbooks, pc, local, bucket, mutex, job, exch, wg>>

FetchTickerCall ==
  \E <<v, p, a>> \in Keys :
    \E r \in TickerAnswers(v) :
      LET out == FetchTicker(v, tickers, p, a, r)
      IN /\ tickers' = out.store
         /\ call' = MarketCall("FetchTicker", v, p, a, r,
                               tickers[<<v, p, a>>].present, out)
         /\ UNCHANGED <<orderbooks, pc, local, bucket, mutex, job, exch, wg>>

UpdateOrderbookCall ==
  \E <<v, p, a>> \in Keys :
    \E r \in DepthAnswers(v) :
      LET out == UpdateOrderbook(v, orderbooks, p, a, r)
      IN /\ orderbooks' = out.store
         /\ call' = MarketCall("UpdateOrderbook", v, p, a, r,
                               orderbooks[<<v, p, a>>].present, out)
         /\ UNCHANGED <<tickers, pc, local, bucket, mutex, job, exch, wg>>

FetchOrderbookCall ==
  \E <<v, p, a>> \in Keys :
    \E r \in DepthAnswers(v) :
      LET out == FetchOrderbook(v, orderbooks, p, a, r)
      IN /\ orderbooks' = out.store
         /\ call' = MarketCall("FetchOrderbook", v, p, a, r,
                               orderbooks[<<v, p, a>>].present, out)
         /\ UNCHANGED <<tickers, pc, local, bucket, mutex, job, exch, wg>>

Next ==
  \/ UpdateTickerCall
  \/ FetchTickerCall
  \/ UpdateOrderbookCall
  \/ FetchOrderbookCall

Spec == Init /\ [][Next]_vars

-----------------------------------------------------------------------------
(* Claims about the market data calls, checked under Spec.                  *)

CallKey(c) == <<c.venue, c.pair, c.asset>>

TickerOps == {"UpdateTicker", "FetchTicker"}
OrderbookOps == {"UpdateOrderbook", "FetchOrderbook"}

\* C1: a FetchTicker that finds no snapshot under its key issues exactly one
\* venue ticker request and returns what UpdateTicker returns for that key
\* and answer (on success the snapshot converted from the answer, which is
\* then the cached one); a FetchTicker that follows a FetchTicker which
\* returned a snapshot for the same key, and any FetchTicker that finds a
\* snapshot, issues no request and returns the cached snapshot.
C1_FetchTickerRefreshesOnce ==
  [][ call'.op = "FetchTicker" =>
        LET k == CallKey(call')
            v == call'.venue
            p == call'.pair
        IN /\ ~tickers[k].present =>
                /\ Len(call'.net) = 1
                /\ call'.net[1] = Request(TickerRequestName(v), p)
                /\ call'.ret = UpdateTicker(v, tickers, p, call'.asset,
                                            call'.answer).ret
                /\ call'.err = call'.answer.err
                /\ call'.err = Nil =>
                     /\ call'.ret = TickerPrice(v, p, call'.answer.tick)
                     /\ tickers'[k] = Entry(call'.ret)
           /\ tickers[k].present =>
                /\ call'.net = <<>>
                /\ call'.err = Nil
                /\ call'.ret = tickers[k].value
           /\ (call.op = "FetchTicker" /\ CallKey(call) = k /\ call.err = Nil) =>
                /\ call'.net = <<>>
                /\ call'.err = Nil
                /\ call'.ret = call.ret ]_vars

\* C1 witness: a FetchTicker on a cold key has refreshed once and returned
\* the converted snapshot.
C1_Witness ==
  /\ call.op = "FetchTicker"
  /\ ~call.hit
  /\ call.err = Nil
  /\ Len(call.net) = 1
  /\ tickers[CallKey(call)] = Entry(call.ret)

\* C7: every UpdateTicker issues exactly one venue ticker request, cached
\* snapshot or not; when the request succeeds the snapshot converted from
\* its answer is stored under the call's key, replacing what was there, no
\* other key changes, and that snapshot is the value returned.
C7_UpdateTickerAlwaysRequests ==
  [][ call'.op = "UpdateTicker" =>
        LET k == CallKey(call')
            v == call'.venue
            p == call'.pair
        IN /\ Len(call'.net) = 1
           /\ call'.net[1] = Request(TickerRequestName(v), p)
           /\ call'.answer.err = Nil =>
                /\ call'.err = Nil
                /\ tickers'[k] = Entry(TickerPrice(v, p, call'.answer.tick))
                /\ call'.ret = TickerPrice(v, p, call'.answer.tick)
                /\ call'.ret.Pair = p
           /\ \A o \in Keys \ {k} : tickers'[o] = tickers[o] ]_vars

\* C7 witness: an UpdateTicker on a key that held a snapshot has replaced it
\* by a different one.
C7_Witness ==
  /\ call.op = "UpdateTicker"
  /\ call.hit
  /\ call.err = Nil
  /\ Len(call.net) = 1
  /\ tickers[CallKey(call)] = Entry(call.ret)
  /\ call.ret.Last = 20

\* C8: a cached ticker or book changes only in a step that is a successful
\* refresh of its key (an Update, or a Fetch that found nothing), and then
\* becomes the snapshot converted from that refresh's answer; a Fetch that
\* finds a snapshot issues no request, changes neither store and returns the
\* cached value; a failed refresh changes nothing.
C8_CacheHoldsLastRefresh ==
  [][ /\ \A k \in Keys :
           /\ tickers'[k] # tickers[k] =>
                /\ call'.op \in TickerOps
                /\ CallKey(call') = k
                /\ call'.err = Nil
                /\ Len(call'.net) = 1
                /\ call'.op = "FetchTicker" => ~tickers[k].present
                /\ tickers'[k] =
                     Entry(TickerPrice(k[1], k[2], call'.answer.tick))
           /\ orderbooks'[k] # orderbooks[k] =>
                /\ call'.op \in OrderbookOps
                /\ CallKey(call') = k
                /\ call'.err = Nil
                /\ Len(call'.net) = 1
                /\ call'.op = "FetchOrderbook" => ~orderbooks[k].present
                /\ orderbooks'[k] =
                     Entry(OrderbookBase(k[1], call'.answer.depth))
      /\ (call'.op = "FetchTicker" /\ tickers[CallKey(call')].present) =>
           /\ call'.net = <<>>
           /\ tickers' = tickers /\ orderbooks' = orderbooks
           /\ call'.ret = tickers[CallKey(call')].value
      /\ (call'.op = "FetchOrderbook" /\ orderbooks[CallKey(call')].present) =>
           /\ call'.net = <<>>
           /\ tickers' = tickers /\ orderbooks' = orderbooks
           /\ call'.ret = orderbooks[CallKey(call')].value
      /\ (call'.op \in TickerOps /\ Len(call'.net) = 1 /\ call'.err = Nil) =>
           tickers'[CallKey(call')] =
             Entry(TickerPrice(call'.venue, call'.pair, call'.answer.tick))
      /\ (call'.op \in OrderbookOps /\ Len(call'.net) = 1 /\ call'.err = Nil) =>
           orderbooks'[CallKey(call')] =
             Entry(OrderbookBase(call'.venue, call'.answer.depth)) ]_vars

\* C8 witness: a FetchOrderbook has hit a cached book and returned it
\* without a request, while a ticker is cached too.
C8_Witness ==
  /\ call.op = "FetchOrderbook"
  /\ call.hit
  /\ call.net = <<>>
  /\ orderbooks[CallKey(call)] = Entry(call.ret)
  /\ \E k \in Keys : tickers[k].present

-----------------------------------------------------------------------------
(* Order submission and the capability stubs.  Each of these calls is a    *)
(* function of its arguments and of what the venue answers; a call starts  *)
(* pending with both drawn, and its action runs the whole wrapper method.  *)

Buy == "Buy"
Sell == "Sell"
Market == "Market"
Limit == "Limit"
OrderSides == {Buy, Sell, "Cover"}
OrderTypes == {Market, Limit, "Stop"}

\* Amounts and balances are counted in halves of a coin.
Amounts == {1, 2}
Prices == {7, 9}
ClientIDs == {S(12), <<"0", "1", "7">>, <<"a", "b">>, <<>>}

Balance(cur, avail) == [Currency |-> cur, AvailableBalance |-> avail]

WalletPool ==
  { [ID |-> "wallet-a", Balances |-> <<Balance("BTC", 1), Balance("LTC", 2)>>],
    [ID |-> "wallet-b", Balances |-> <<Balance("USD", 5), Balance("BTC", 2)>>],
    [ID |-> "wallet-c", Balances |-> <<Balance("BTC", 3)>>] }

\* The wallet lists a venue may return: no wallet twice, at most MaxWallets.
WalletLists ==
  {w \in UNION {[1..n -> WalletPool] : n \in 0..MaxWallets} :
     \A x, y \in DOMAIN w : x # y => w[x] # w[y]}

WalletAnswers ==
  {[err |-> ErrTransport, wallets |-> <<>>]}
    \cup {[err |-> Nil, wallets |-> w] : w \in WalletLists}

NoOrderID == <<>>
ItBitPlaceAnswers ==
  [ID : {NoOrderID, <<"a", "7">>}, err : {Nil, ErrVenue}]

HuobiPlaceAnswers == [response : {0, 57}, err : {Nil, ErrVenue}]

ZeroSubmitOrderResponse == [OrderID |-> NoOrderID, IsOrderPlaced |-> FALSE]

ErrNoWallet(cur, amount) ==
  [kind |-> "No wallet found", currency |-> cur, amount |-> amount]

ErrUnsupportedOrderType == Err("Unsupported order type")

\* A balance counts whatever it holds, as long as the currency matches.
QualifiesByCurrencyOnly(balance, cur, amount) == balance.Currency = cur

\* ItBit.SubmitOrder, the test of one balance.
Qualifies(balance, cur, amount) ==
  balance.Currency = cur /\ balance.AvailableBalance >= amount

\* ItBit.SubmitOrder, the inner loop over one wallet's balances.
RECURSIVE ScanBalances(_, _, _, _, _)
ScanBalances(w, j, cur, amount, wallet) ==
  IF j > Len(w.Balances) THEN wallet
  ELSE ScanBalances(w, j + 1, cur, amount,
                    IF Qualifies(w.Balances[j], cur, amount) THEN w.ID
                    ELSE wallet)

\* ItBit.SubmitOrder, the outer loop over the wallets: every wallet is
\* visited and each qualifying balance assigns the wallet ID again.
RECURSIVE ScanWallets(_, _, _, _, _)
ScanWallets(wallets, x, cur, amount, wallet) ==
  IF x > Len(wallets) THEN wallet
  ELSE ScanWallets(wallets, x + 1, cur, amount,
                   ScanBalances(wallets[x], 1, cur, amount, wallet))

PairString(p) == <<p.FirstCurrency, p.SecondCurrency>>

Lower(cur) ==
  CASE cur = "BTC" -> "btc"
    [] cur = "LTC" -> "ltc"
    [] cur = "USD" -> "usd"
    [] OTHER -> cur

StringToLower(ps) == [x \in DOMAIN ps |-> Lower(ps[x])]

\* The flag follows the identifier instead of the error.
PlacedWhenIdentified(id, err) ==
  [OrderID |-> id, IsOrderPlaced |-> id # NoOrderID]

\* Both wrappers, after the placement call: the identifier is copied when
\* there is one, the flag is set when there is no error.
SubmitOrderResponse(id, err) ==
  [OrderID |-> IF id # NoOrderID THEN id ELSE NoOrderID,
   IsOrderPlaced |-> err = Nil]

\* ItBit.SubmitOrder, given the answers to GetWallets and to PlaceOrder.
ItBitSubmitOrder(p, side, orderType, amount, price, clientID, wr, pr) ==
  LET walletsReq == Request("GetWallets", "")
      wallet == ScanWallets(wr.wallets, 1, p.FirstCurrency, amount, "")
      placeReq ==
        Request("PlaceOrder",
                [wallet |-> wallet, side |-> side, type |-> orderType,
                 currency |-> p.FirstCurrency, amount |-> amount,
                 price |-> price, instrument |-> PairString(p),
                 clientRef |-> <<>>])
  IN IF wr.err # Nil
     THEN [ret |-> ZeroSubmitOrderResponse, err |-> wr.err,
           net |-> <<walletsReq>>]
     ELSE IF wallet = ""
     THEN [ret |-> ZeroSubmitOrderResponse,
           err |-> ErrNoWallet(p.FirstCurrency, amount),
           net |-> <<walletsReq>>]
     ELSE [ret |-> SubmitOrderResponse(pr.ID, pr.err), err |-> pr.err,
           net |-> <<walletsReq, placeReq>>]

SpotNewOrderRequestTypeBuyMarket == "buy-market"
SpotNewOrderRequestTypeSellMarket == "sell-market"
SpotNewOrderRequestTypeBuyLimit == "buy-limit"
SpotNewOrderRequestTypeSellLimit == "sell-limit"

\* HUOBIHADAX.SubmitOrder, given the answer to SpotNewOrder.  The error of
\* ParseInt is overwritten by the placement's; Price stays 0 unless set.
HuobiSubmitOrder(p, side, orderType, amount, price, clientID, pr) ==
  LET accountID == ParseInt(clientID, 0).val
      params == [Amount |-> amount, Source |-> "api",
                 Symbol |-> StringToLower(PairString(p)),
                 AccountID |-> accountID, Price |-> 0, Type |-> ""]
      send(formattedType, withPrice) ==
        LET req == Request("SpotNewOrder",
                           [params EXCEPT !.Type = formattedType,
                                          !.Price = IF withPrice THEN price
                                                    ELSE 0])
            id == IF pr.response > 0 THEN SprintfInt(pr.response)
                  ELSE NoOrderID
        IN [ret |-> SubmitOrderResponse(id, pr.err), err |-> pr.err,
            net |-> <<req>>]
  IN IF side = Buy /\ orderType = Market
     THEN send(SpotNewOrderRequestTypeBuyMarket, FALSE)
     ELSE IF side = Sell /\ orderType = Market
     THEN send(SpotNewOrderRequestTypeSellMarket, FALSE)
     ELSE IF side = Buy /\ orderType = Limit
     THEN send(SpotNewOrderRequestTypeBuyLimit, TRUE)
     ELSE IF side = Sell /\ orderType = Limit
     THEN send(SpotNewOrderRequestTypeSellLimit, TRUE)
     ELSE [ret |-> ZeroSubmitOrderResponse, err |-> ErrUnsupportedOrderType,
           net |-> <<>>]

\* A funding history stub that reports success with nothing in it.
GetFundingHistoryEmptySuccess(v) == [ret |-> <<>>, err |-> Nil, net |-> <<>>]

\* GetFundingHistory of both wrappers.
GetFundingHistory(v) ==
  [ret |-> <<>>, err |-> ErrFunctionNotSupported, net |-> <<>>]

\* ModifyOrder of both wrappers.
ModifyOrder(v, orderID, action) ==
  [ret |-> 0, err |-> ErrNotYetImplemented, net |-> <<>>]

\* CancelAllOrders of both wrappers.
CancelAllOrders(v) == [ret |-> 0, err |-> ErrNotYetImplemented, net |-> <<>>]

OrderIDs == {1, 2}
ModifyActions == {"price", "amount"}

PendingItBitSubmitOrder ==
  [op : {"SubmitOrder"}, venue : {ItBitName}, done : {FALSE},
   pair : VenuePairs(ItBitName), side : OrderSides, orderType : OrderTypes,
   amount : Amounts, price : Prices, clientID : ClientIDs,
   wallets : WalletAnswers, place : ItBitPlaceAnswers,
   ret : {ZeroSubmitOrderResponse}, err : {Nil}, net : {<<>>}]

PendingHuobiSubmitOrder ==
  [op : {"SubmitOrder"}, venue : {HuobiName}, done : {FALSE},
   pair : VenuePairs(HuobiName), side : OrderSides, orderType : OrderTypes,
   amount : Amounts, price : Prices, clientID : ClientIDs,
   place : HuobiPlaceAnswers,
   ret : {ZeroSubmitOrderResponse}, err : {Nil}, net : {<<>>}]

\* The cancellations a caller hands over, and the venue's answers.
CancelOrderIDs == {S(12), <<"0", "7">>, <<"7", "x">>, <<>>}
WalletAddresses == {"wallet-a", "wallet-b"}
CancelAnswers == [err : {Nil, ErrVenue}]

\* ItBit.CancelOrder: wallet and order identifier go to the venue as given.
ItBitCancelOrder(order, cr) ==
  [ret |-> 0, err |-> cr.err,
   net |-> <<Request("CancelExistingOrder",
                     [walletID |-> order.WalletAddress,
                      orderID |-> order.OrderID])>>]

\* A cancellation that goes on with the value ParseInt returned.
HuobiCancelOrderIgnoringParse(order, cr) ==
  [ret |-> 0, err |-> cr.err,
   net |-> <<Request("CancelExistingOrder", ParseInt(order.OrderID, 10).val)>>]

\* HUOBIHADAX.CancelOrder: the identifier is parsed as a decimal integer; a
\* parse error is returned before any request.
HuobiCancelOrder(order, cr) ==
  LET orderIDInt == ParseInt(order.OrderID, 10)
  IN IF orderIDInt.err # Nil
     THEN [ret |-> 0, err |-> orderIDInt.err, net |-> <<>>]
     ELSE [ret |-> 0, err |-> cr.err,
           net |-> <<Request("CancelExistingOrder", orderIDInt.val)>>]

PendingCancelOrder ==
  [op : {"CancelOrder"}, venue : Venues, done : {FALSE},
   order : [OrderID : CancelOrderIDs, WalletAddress : WalletAddresses],
   cancel : CancelAnswers, ret : {0}, err : {Nil}, net : {<<>>}]

PendingStub ==
  [op : {"GetFundingHistory", "ModifyOrder", "CancelAllOrders"},
   venue : Venues, done : {FALSE}, orderID : OrderIDs,
   action : ModifyActions, ret : {0}, err : {Nil}, net : {<<>>}]

Finished(c, out) ==
  [c EXCEPT !.done = TRUE, !.ret = out.ret, !.err = out.err, !.net = out.net]

InitOrder ==
  /\ tickers = [k \in Keys |-> NoEntry]
  /\ orderbooks = [k \in Keys |-> NoEntry]
  /\ \/ call \in PendingItBitSubmitOrder
     \/ call \in PendingHuobiSubmitOrder
     \/ call \in PendingStub
     \/ call \in PendingCancelOrder
  /\ pc = [c \in Callers |-> "idle"]
  /\ local = [c \in Callers |-> NoLocal]
  /\ bucket = [v \in Venues |-> EmptyBuckets]
  /\ mutex = [v \in Venues |-> NoCaller]
  /\ job = [c \in Callers |-> NoJob]
  /\ exch = [v \in Venues |-> Adapter(v)]
  /\ wg = NoWaitGroup

Starts(op, v) == call.op = op /\ call.venue = v /\ ~call.done

MarketAtRest == UNCHANGED <<tickers, orderbooks, pc, local, bucket, mutex, job, exch, wg>>

ItBitSubmitOrderCall ==
  /\ Starts("SubmitOrder", ItBitName)
  /\ call' = Finished(call,
                      ItBitSubmitOrder(call.pair, call.side, call.orderType,
                                       call.amount, call.price, call.clientID,
                                       call.wallets, call.place))
  /\ MarketAtRest

HuobiSubmitOrderCall ==
  /\ Starts("SubmitOrder", HuobiName)
  /\ call' = Finished(call,
                      HuobiSubmitOrder(call.pair, call.side, call.orderType,
                                       call.amount, call.price, call.clientID,
                                       call.place))
  /\ MarketAtRest

GetFundingHistoryCall ==
  /\ \E v \in Venues : Starts("GetFundingHistory", v)
  /\ call' = Finished(call, GetFundingHistory(call.venue))
  /\ MarketAtRest

ModifyOrderCall ==
  /\ \E v \in Venues : Starts("ModifyOrder", v)
  /\ call' = Finished(call, ModifyOrder(call.venue, call.orderID, call.action))
  /\ MarketAtRest

CancelAllOrdersCall ==
  /\ \E v \in Venues : Starts("CancelAllOrders", v)
  /\ call' = Finished(call, CancelAllOrders(call.venue))
  /\ MarketAtRest

ItBitCancelOrderCall ==
  /\ Starts("CancelOrder", ItBitName)
  /\ call' = Finished(call, ItBitCancelOrder(call.order, call.cancel))
  /\ MarketAtRest

HuobiCancelOrderCall ==
  /\ Starts("CancelOrder", HuobiName)
  /\ call' = Finished(call, HuobiCancelOrder(call.order, call.cancel))
  /\ MarketAtRest

NextOrder ==
  \/ ItBitSubmitOrderCall
  \/ HuobiSubmitOrderCall
  \/ GetFundingHistoryCall
  \/ ModifyOrderCall
  \/ CancelAllOrdersCall
  \/ ItBitCancelOrderCall
  \/ HuobiCancelOrderCall

SpecOrder == InitOrder /\ [][NextOrder]_vars

-----------------------------------------------------------------------------
(* Claims about order submission and the stubs, checked under SpecOrder.    *)

SubmitDone == call.op = "SubmitOrder" /\ call.done

ValidCombination(side, orderType) ==
  side \in {Buy, Sell} /\ orderType \in {Market, Limit}

PlacementRequests == {"PlaceOrder", "SpotNewOrder"}

PlacementSent ==
  \E x \in 1..Len(call.net) : call.net[x].name \in PlacementRequests

\* The wallets of a list that hold at least `amount` of `cur`, by position.
QualifyingWallets(wallets, cur, amount) ==
  {x \in 1..Len(wallets) :
     \E j \in 1..Len(wallets[x].Balances) :
       /\ wallets[x].Balances[j].Currency = cur
       /\ wallets[x].Balances[j].AvailableBalance >= amount}

Least(xs) == CHOOSE x \in xs : \A y \in xs : x <= y

\* C2: a SubmitOrder whose (side, order kind) is outside
\* {Buy, Sell} x {Market, Limit} returns the validation error and has issued
\* no request at all.  ItBit.SubmitOrder never inspects the combination.
C2_InvalidCombinationRejectedOffline ==
  (SubmitDone /\ ~ValidCombination(call.side, call.orderType)) =>
    /\ call.err = ErrUnsupportedOrderType
    /\ call.net = <<>>

\* C3: the wallet ItBit.SubmitOrder hands to PlaceOrder is the first wallet,
\* in the venue's order, holding the base currency with an available
\* balance of at least the amount.  The loop has no break: the last wins.
C3_FirstQualifyingWalletChosen ==
  (SubmitDone /\ call.venue = ItBitName /\ Len(call.net) = 2) =>
    LET q == QualifyingWallets(call.wallets.wallets, call.pair.FirstCurrency,
                               call.amount)
    IN /\ q # {}
       /\ call.net[2].arg.wallet = call.wallets.wallets[Least(q)].ID

\* C4: when the wallets ItBit returned hold no balance in the base currency
\* of at least the amount, SubmitOrder returns the error that names that
\* currency and amount, the order-placed flag is false and no placement
\* request was sent.
C4_NoWalletNoPlacement ==
  (/\ SubmitDone
   /\ call.venue = ItBitName
   /\ call.wallets.err = Nil
   /\ QualifyingWallets(call.wallets.wallets, call.pair.FirstCurrency,
                        call.amount) = {}) =>
    /\ call.err = ErrNoWallet(call.pair.FirstCurrency, call.amount)
    /\ call.err.kind = "No wallet found"
    /\ ~call.ret.IsOrderPlaced
    /\ ~PlacementSent
    /\ Len(call.net) = 1

\* C4 witness: one wallet holding half a coin (BTC 1) and an order for a
\* whole coin (2) of BTC: refused, naming BTC and the amount.
C4_Witness ==
  /\ SubmitDone
  /\ call.venue = ItBitName
  /\ call.wallets.err = Nil
  /\ Len(call.wallets.wallets) = 1
  /\ call.wallets.wallets[1].ID = "wallet-a"
  /\ call.pair = BTCUSD
  /\ call.side = Buy
  /\ call.amount = 2
  /\ call.err = ErrNoWallet("BTC", 2)

StubOps == {"GetFundingHistory", "ModifyOrder", "CancelAllOrders"}

\* C5 as stated: GetFundingHistory, ModifyOrder and CancelAllOrders all
\* return the not-yet-implemented error.
C5_StubsNotYetImplemented ==
  (call.op \in StubOps /\ call.done) => call.err = ErrNotYetImplemented

\* C5 as amended: none of the three returns a nil error; ModifyOrder and
\* CancelAllOrders return the not-yet-implemented error, GetFundingHistory
\* returns the function-not-supported error with an empty history; none
\* issues a request.
C5_StubsReportCapabilityError ==
  (call.op \in StubOps /\ call.done) =>
    /\ call.err # Nil
    /\ call.net = <<>>
    /\ call.op \in {"ModifyOrder", "CancelAllOrders"} =>
         call.err = ErrNotYetImplemented
    /\ call.op = "GetFundingHistory" =>
         call.err = ErrFunctionNotSupported /\ call.ret = <<>>

\* C5 witness: GetFundingHistory on HuobiHadax has returned the
\* function-not-supported error.
C5_Witness ==
  /\ call.op = "GetFundingHistory"
  /\ call.done
  /\ call.venue = HuobiName
  /\ call.err = ErrFunctionNotSupported

\* C6: after SubmitOrder the order-placed flag is true exactly when the
\* placement request was issued and returned no error; whenever SubmitOrder
\* returns an error the flag is false, whether or not an order identifier
\* came back.
C6_PlacedFlagAuthoritative ==
  SubmitDone =>
    /\ call.ret.IsOrderPlaced <=> (PlacementSent /\ call.place.err = Nil)
    /\ call.err # Nil => ~call.ret.IsOrderPlaced
    /\ call.ret.IsOrderPlaced => call.err = Nil

\* C6 witness: the venue rejected the placement but an identifier came
\* back: the identifier is returned and the flag is false.
C6_Witness ==
  /\ SubmitDone
  /\ PlacementSent
  /\ call.err = ErrVenue
  /\ call.ret.OrderID # NoOrderID
  /\ ~call.ret.IsOrderPlaced

-----------------------------------------------------------------------------
(* Racing market data calls.  Two callers run the wrappers' market data    *)
(* methods of one venue on one key, interleaved at the calls the methods   *)
(* make: the lookup, the venue request, the store and the read back.       *)

RacePair == BTCUSD
RaceOps == TickerOps \cup OrderbookOps

Resting(v) == [op |-> "none", venue |-> v]

InitRace ==
  /\ tickers = [k \in Keys |-> NoEntry]
  /\ orderbooks = [k \in Keys |-> NoEntry]
  /\ call = NoCall
  /\ pc = [c \in Callers |-> "idle"]
  /\ \E v \in Venues : local = [c \in Callers |-> Resting(v)]
  /\ bucket = [v \in Venues |-> EmptyBuckets]
  /\ mutex = [v \in Venues |-> NoCaller]
  /\ job = [c \in Callers |-> NoJob]
  /\ exch = [v \in Venues |-> Adapter(v)]
  /\ wg = NoWaitGroup

RaceFrame == UNCHANGED <<call, bucket, mutex, job, exch, wg>>

\* A caller enters one of the four methods.
RaceCall(self) ==
  /\ pc[self] = "idle"
  /\ \E op \in RaceOps :
       /\ local' = [local EXCEPT ![self] =
                      [op |-> op, venue |-> local[self].venue,
                       pair |-> RacePair, asset |-> AssetTypeSpot,
                       requests |-> 0, stored |-> FALSE,
                       snapshot |-> IF op \in TickerOps THEN ZeroPrice
                                    ELSE ZeroBase,
                       ret |-> IF op \in TickerOps THEN ZeroPrice
                               ELSE ZeroBase,
                       err |-> Nil]]
       /\ pc' = [pc EXCEPT ![self] =
                   IF op \in {"FetchTicker", "FetchOrderbook"} THEN "lookup"
                   ELSE "request"]
  /\ UNCHANGED <<tickers, orderbooks>>
  /\ RaceFrame

\* FetchTicker / FetchOrderbook: the lookup in the store.
RaceLookup(self) ==
  LET l == local[self]
      got == IF l.op = "FetchTicker"
             THEN GetTicker(tickers, l.venue, l.pair, l.asset)
             ELSE GetOrderbook(orderbooks, l.venue, l.pair, l.asset)
  IN /\ pc[self] = "lookup"
     /\ IF got.err # Nil
        THEN /\ pc' = [pc EXCEPT ![self] = "request"]
             /\ UNCHANGED local
        ELSE /\ pc' = [pc EXCEPT ![self] = "done"]
             /\ local' = [local EXCEPT ![self].ret = got.val]
     /\ UNCHANGED <<tickers, orderbooks>>
     /\ RaceFrame

\* UpdateTicker / UpdateOrderbook: the venue request and the conversion of
\* its answer into the method's local snapshot.
RaceRequest(self) ==
  LET l == local[self]
  IN /\ pc[self] = "request"
     /\ IF l.op \in TickerOps
        THEN \E r \in TickerAnswers(l.venue) :
               IF r.err # Nil
               THEN /\ local' = [local EXCEPT ![self].requests = @ + 1,
                                              ![self].err = r.err]
                    /\ pc' = [pc EXCEPT ![self] = "done"]
               ELSE /\ local' = [local EXCEPT
                                   ![self].requests = @ + 1,
                                   ![self].snapshot =
                                      TickerPrice(l.venue, l.pair, r.tick)]
                    /\ pc' = [pc EXCEPT ![self] = "store"]
        ELSE \E r \in DepthAnswers(l.venue) :
               IF r.err # Nil
               THEN /\ local' = [local EXCEPT ![self].requests = @ + 1,
                                              ![self].err = r.err]
                    /\ pc' = [pc EXCEPT ![self] = "done"]
               ELSE /\ local' = [local EXCEPT
                                   ![self].requests = @ + 1,
                                   ![self].snapshot =
                                      OrderbookBase(l.venue, r.depth)]
                    /\ pc' = [pc EXCEPT ![self] = "store"]
     /\ UNCHANGED <<tickers, orderbooks>>
     /\ RaceFrame

\* UpdateTicker / UpdateOrderbook: ProcessTicker / ProcessOrderbook.
RaceStore(self) ==
  LET l == local[self]
  IN /\ pc[self] = "store"
     /\ IF l.op \in TickerOps
        THEN /\ tickers' = ProcessTicker(tickers, l.venue, l.pair, l.snapshot,
                                         l.asset)
             /\ UNCHANGED orderbooks
        ELSE /\ orderbooks' = ProcessOrderbook(orderbooks, l.venue, l.pair,
                                               l.snapshot, l.asset)
             /\ UNCHANGED tickers
     /\ local' = [local EXCEPT ![self].stored = TRUE]
     /\ pc' = [pc EXCEPT ![self] = "readback"]
     /\ RaceFrame

\* UpdateTicker / UpdateOrderbook: the value returned is read from the store.
RaceReadBack(self) ==
  LET l == local[self]
      got == IF l.op \in TickerOps
             THEN GetTicker(tickers, l.venue, l.pair, l.asset)
             ELSE GetOrderbook(orderbooks, l.venue, l.pair, l.asset)
  IN /\ pc[self] = "readback"
     /\ local' = [local EXCEPT ![self].ret = got.val, ![self].err = got.err]
     /\ pc' = [pc EXCEPT ![self] = "done"]
     /\ UNCHANGED <<tickers, orderbooks>>
     /\ RaceFrame

\* The method returns; the caller may call again.
RaceReturn(self) ==
  /\ pc[self] = "done"
  /\ pc' = [pc EXCEPT ![self] = "idle"]
  /\ local' = [local EXCEPT ![self] = Resting(local[self].venue)]
  /\ UNCHANGED <<tickers, orderbooks>>
  /\ RaceFrame

NextRace ==
  \E self \in Callers :
    \/ RaceCall(self)
    \/ RaceLookup(self)
    \/ RaceRequest(self)
    \/ RaceStore(self)
    \/ RaceReadBack(self)
    \/ RaceReturn(self)

SpecRace == InitRace /\ [][NextRace]_vars

-----------------------------------------------------------------------------
(* Claims about racing refreshes, checked under SpecRace.                   *)

FirstOrZero(xs) == IF Len(xs) > 0 THEN xs[1] ELSE 0

\* x carries, in every field, the values of one single venue ticker.
WholeTicker(v, p, x) ==
  /\ x.Pair = p
  /\ IF v = ItBitName
     THEN \E t \in ItBitTicks :
            /\ x.Ask = t.Ask /\ x.Bid = t.Bid /\ x.Last = t.LastPrice
            /\ x.High = t.High24h /\ x.Low = t.Low24h
            /\ x.Volume = t.Volume24h
     ELSE \E t \in HuobiTicks :
            /\ x.Low = t.Low /\ x.Last = t.Close /\ x.Volume = t.Volume
            /\ x.High = t.High
            /\ x.Ask = FirstOrZero(t.Ask) /\ x.Bid = FirstOrZero(t.Bid)

\* x carries the levels of one single venue depth payload, all of them.
WholeBook(v, x) ==
  \E d \in (IF v = ItBitName THEN ItBitDepths ELSE HuobiDepths) :
    /\ Len(x.Bids) = Len(d.Bids) /\ Len(x.Asks) = Len(d.Asks)
    /\ x = OrderbookBase(v, d)

SameStore(a, b) == (a.op \in TickerOps) <=> (b.op \in TickerOps)

\* C9: whatever the interleaving of two callers refreshing one key, every
\* cached ticker and book is the snapshot of one single venue answer, every
\* value a caller read from the store (a Fetch's lookup, an Update's read
\* back) is such a whole snapshot, and once both callers have stored for the
\* key the cache holds the snapshot of one of the two.
C9_SnapshotsNeverMixed ==
  /\ \A k \in Keys :
       /\ tickers[k].present => WholeTicker(k[1], k[2], tickers[k].value)
       /\ orderbooks[k].present => WholeBook(k[1], orderbooks[k].value)
  /\ \A c \in Callers :
       (pc[c] = "done" /\ local[c].err = Nil) =>
         IF local[c].op \in TickerOps
         THEN WholeTicker(local[c].venue, local[c].pair, local[c].ret)
         ELSE WholeBook(local[c].venue, local[c].ret)
  /\ \A c, d \in Callers :
       (/\ c # d
        /\ pc[c] \in {"readback", "done"} /\ local[c].stored
        /\ pc[d] \in {"readback", "done"} /\ local[d].stored
        /\ SameStore(local[c], local[d])) =>
         LET k == <<local[c].venue, local[c].pair, local[c].asset>>
             held == IF local[c].op \in TickerOps THEN tickers[k]
                     ELSE orderbooks[k]
         IN /\ held.present
            /\ held.value \in {local[c].snapshot, local[d].snapshot}

\* C9 witness: two UpdateTicker calls on HuobiHadax have both stored
\* different snapshots for the key; the cache holds the second caller's and
\* the first caller has read that one back.
C9_Witness ==
  \E c, d \in Callers :
    /\ c # d
    /\ local[c].op = "UpdateTicker" /\ local[d].op = "UpdateTicker"
    /\ local[c].venue = HuobiName
    /\ local[c].stored /\ local[d].stored
    /\ local[c].snapshot # local[d].snapshot
    /\ tickers[<<HuobiName, RacePair, AssetTypeSpot>>] =
         Entry(local[d].snapshot)
    /\ pc[c] = "done"
    /\ local[c].ret = local[d].snapshot

-----------------------------------------------------------------------------
(* The rate limited requester.  A caller's request takes the venue's lock, *)
(* reads the count of its class's limit, and either counts itself in and   *)
(* is sent, or finds the window used up and waits for the next one.        *)

InitLimiter == Init

LimiterFrame == UNCHANGED <<tickers, orderbooks, call, pc, local, exch, wg>>

\* A wrapper method hands a request of some credential class to the requester.
Dispatch(self) ==
  /\ job[self].at = "idle"
  /\ \E v \in Venues, c \in Classes :
       job' = [job EXCEPT ![self] =
                 [at |-> "waiting", venue |-> v, class |-> c, seen |-> 0]]
  /\ UNCHANGED <<bucket, mutex>>
  /\ LimiterFrame

\* The request takes the venue's lock.
Lock(self) ==
  /\ job[self].at = "waiting"
  /\ mutex[job[self].venue] = NoCaller
  /\ mutex' = [mutex EXCEPT ![job[self].venue] = self]
  /\ job' = [job EXCEPT ![self].at = "locked"]
  /\ UNCHANGED bucket
  /\ LimiterFrame

\* Under the lock: the count of the class's limit is read.
ReadBucket(self) ==
  LET j == job[self]
  IN /\ j.at = "locked"
     /\ job' = [job EXCEPT ![self].at = "read",
                           ![self].seen =
                              bucket[j.venue].used[LimitOf(j.venue, j.class).id]]
     /\ UNCHANGED <<bucket, mutex>>
     /\ LimiterFrame

\* A requester that fails a request finding the window used up, instead of
\* making it wait.
TakeTokenOrFail(self) ==
  LET j == job[self]
      limit == LimitOf(j.venue, j.class)
  IN /\ j.at = "read"
     /\ IF j.seen < limit.Rate
        THEN /\ bucket' = [bucket EXCEPT
                             ![j.venue].used[limit.id] = j.seen + 1,
                             ![j.venue].admitted[j.class] = @ + 1]
             /\ job' = [job EXCEPT ![self].at = "admitted"]
        ELSE /\ UNCHANGED bucket
             /\ job' = [job EXCEPT ![self] = NoJob]
     /\ mutex' = [mutex EXCEPT ![j.venue] = NoCaller]
     /\ LimiterFrame

\* Under the lock: below the rate the request is counted and admitted,
\* otherwise it goes back to waiting; either way the lock is released.
TakeToken(self) ==
  LET j == job[self]
      limit == LimitOf(j.venue, j.class)
  IN /\ j.at = "read"
     /\ IF j.seen < limit.Rate
        THEN /\ bucket' = [bucket EXCEPT
                             ![j.venue].used[limit.id] = j.seen + 1,
                             ![j.venue].admitted[j.class] = @ + 1]
             /\ job' = [job EXCEPT ![self].at = "admitted"]
        ELSE /\ UNCHANGED bucket
             /\ job' = [job EXCEPT ![self].at = "waiting"]
     /\ mutex' = [mutex EXCEPT ![j.venue] = NoCaller]
     /\ LimiterFrame

\* The admitted request is issued on the venue's HTTP client.
Send(self) ==
  /\ job[self].at = "admitted"
  /\ job' = [job EXCEPT ![self] = NoJob]
  /\ UNCHANGED <<bucket, mutex>>
  /\ LimiterFrame

\* A window ends: under the lock, the venue's counts start again.
Refill(v) ==
  /\ mutex[v] = NoCaller
  /\ bucket[v] # EmptyBuckets
  /\ bucket' = [bucket EXCEPT ![v] = EmptyBuckets]
  /\ UNCHANGED <<mutex, job>>
  /\ LimiterFrame

NextLimiter ==
  \/ \E self \in Callers :
       \/ Dispatch(self)
       \/ Lock(self)
       \/ ReadBucket(self)
       \/ TakeToken(self)
       \/ Send(self)
  \/ \E v \in Venues : Refill(v)

SpecLimiter == InitLimiter /\ [][NextLimiter]_vars

-----------------------------------------------------------------------------
(* Claims about the requester, checked under SpecLimiter.                   *)

RateOf(class) == IF class = "auth" THEN AuthRate ELSE UnauthRate

InCriticalSection(c, v) ==
  job[c].at \in {"locked", "read"} /\ job[c].venue = v

\* C10: in every interleaving, no window admits more requests of a class
\* than the class's rate; at most one caller at a time is between taking a
\* venue's lock and releasing it, so every admission counts a token of its
\* own; and the count a class is measured against is the count of its own
\* admissions only: a request is turned back to wait exactly when its own
\* class has used up the window, whatever the other class has done.
C10_NoOverAdmission ==
  /\ [](\A v \in Venues :
          /\ \A c \in Classes :
               /\ bucket[v].admitted[c] <= RateOf(c)
               /\ bucket[v].used[LimitOf(v, c).id] = bucket[v].admitted[c]
          /\ \A c, d \in Callers :
               (InCriticalSection(c, v) /\ InCriticalSection(d, v)) => c = d
          /\ \A c \in Callers : InCriticalSection(c, v) => mutex[v] = c)
  /\ [][\A self \in Callers :
          (job[self].at = "read" /\ job'[self].at # "read") =>
            LET v == job[self].venue
                c == job[self].class
            IN /\ job'[self].at = "waiting" <=>
                    bucket[v].admitted[c] = RateOf(c)
               /\ job'[self].at = "admitted" =>
                    /\ bucket'[v].admitted[c] = bucket[v].admitted[c] + 1
                    /\ \A o \in Classes \ {c} :
                         bucket'[v].admitted[o] = bucket[v].admitted[o]]_vars

\* C10 witness: on HuobiHadax the authenticated window is used up and an
\* authenticated request waits, while an unauthenticated request has just
\* been admitted.
C10_Witness ==
  \E c, d \in Callers :
    /\ bucket[HuobiName].admitted["auth"] = AuthRate
    /\ job[c].at = "waiting"
    /\ job[c].venue = HuobiName /\ job[c].class = "auth"
    /\ job[d].at = "admitted"
    /\ job[d].venue = HuobiName /\ job[d].class = "unauth"
-----------------------------------------------------------------------------
(* A burst of requests.  Every caller has handed one request to the        *)
(* requester; none hands over another.  The window timer fires however     *)
(* the callers are scheduled, and a caller that can step does.             *)

InitBurst ==
  /\ tickers = [k \in Keys |-> NoEntry]
  /\ orderbooks = [k \in Keys |-> NoEntry]
  /\ call = NoCall
  /\ pc = [c \in Callers |-> "idle"]
  /\ local = [c \in Callers |-> NoLocal]
  /\ bucket = [v \in Venues |-> EmptyBuckets]
  /\ mutex = [v \in Venues |-> NoCaller]
  /\ job \in [Callers ->
                [at : {"waiting"}, venue : Venues, class : Classes,
                 seen : {0}]]
  /\ exch = [v \in Venues |-> Adapter(v)]
  /\ wg = NoWaitGroup

NextBurst ==
  \/ \E self \in Callers :
       \/ Lock(self)
       \/ ReadBucket(self)
       \/ TakeToken(self)
       \/ Send(self)
  \/ \E v \in Venues : Refill(v)

SpecBurst ==
  /\ InitBurst
  /\ [][NextBurst]_vars
  /\ \A self \in Callers :
       /\ WF_vars(Lock(self))
       /\ WF_vars(ReadBucket(self))
       /\ WF_vars(TakeToken(self))
       /\ WF_vars(Send(self))
  /\ \A v \in Venues : SF_vars(Refill(v))

\* C11: a request that reads a used-up window is turned back to wait, with
\* the lock released, and is neither dropped nor failed; and every waiting
\* request is eventually admitted, its own class's count having room again
\* only after a refill.
C11_BlockedUntilRefill ==
  /\ [][\A self \in Callers :
          (/\ job[self].at = "read"
           /\ job[self].seen >= LimitOf(job[self].venue, job[self].class).Rate
           /\ job'[self] # job[self]) =>
            /\ job'[self] = [job[self] EXCEPT !.at = "waiting"]
            /\ mutex'[job[self].venue] = NoCaller
            /\ bucket' = bucket]_vars
  /\ \A self \in Callers :
       (job[self].at = "waiting") ~> (job[self].at = "admitted")

\* C11 witness: with an unauthenticated rate of UnauthRate per window, one
\* caller holds the window's last token and the other, having read the
\* used-up count, waits.
C11_Witness ==
  \E c, d \in Callers :
    /\ c # d
    /\ job[d].at = "admitted"
    /\ job[c].at = "waiting"
    /\ job[c].venue = job[d].venue
    /\ job[c].class = "unauth" /\ job[d].class = "unauth"
    /\ job[c].seen = UnauthRate
    /\ bucket[job[c].venue].admitted["unauth"] = UnauthRate
-----------------------------------------------------------------------------
(* Failed refreshes, checked under Spec.                                    *)

\* C12: when the venue request of UpdateTicker or UpdateOrderbook fails,
\* called directly or by a fetch that found no snapshot, the call returns
\* the request's error, has issued exactly that one request, and both stores
\* are exactly as before; a fetch on a key that holds no snapshot always
\* issues a request.
C12_FailedRefreshLeavesCache ==
  [][ /\ (/\ call'.op \in TickerOps \cup OrderbookOps
          /\ call'.answer.err # Nil
          /\ \/ call'.op \in {"UpdateTicker", "UpdateOrderbook"}
             \/ call'.op = "FetchTicker"
                  /\ ~tickers[CallKey(call')].present
             \/ call'.op = "FetchOrderbook"
                  /\ ~orderbooks[CallKey(call')].present) =>
            /\ call'.err = call'.answer.err
            /\ call'.net =
                 << Request(IF call'.op \in TickerOps
                            THEN TickerRequestName(call'.venue)
                            ELSE DepthRequestName(call'.venue),
                            call'.pair) >>
            /\ tickers' = tickers
            /\ orderbooks' = orderbooks
      /\ (call'.op = "FetchTicker" /\ ~tickers[CallKey(call')].present) =>
            Len(call'.net) = 1
      /\ (call'.op = "FetchOrderbook"
            /\ ~orderbooks[CallKey(call')].present) =>
            Len(call'.net) = 1 ]_vars

\* C12 witness: an UpdateOrderbook on a key that held a book has failed with
\* the venue's error and the book is still cached.
C12_Witness ==
  /\ call.op = "UpdateOrderbook"
  /\ call.hit
  /\ call.answer.err = ErrTransport
  /\ call.err = ErrTransport
  /\ Len(call.net) = 1
  /\ orderbooks[CallKey(call)].present
  /\ orderbooks[CallKey(call)].value # ZeroBase
-----------------------------------------------------------------------------
(* The venue-native order of a submission, checked under SpecOrder.         *)

\* The placement request of the finished call: the last request it issued.
Placement == call.net[Len(call.net)]

\* C13: a SubmitOrder with a combination in {Buy, Sell} x {Market, Limit}
\* that sends a placement sends the venue's own order type for exactly that
\* combination, and the placement carries the caller's price when the kind
\* is Limit and no price (zero) when it is Market.  ItBit.SubmitOrder hands
\* the price to PlaceOrder whatever the kind.
C13_NativeTypeAndPriceOnlyOnLimit ==
  (SubmitDone /\ ValidCombination(call.side, call.orderType)
     /\ PlacementSent) =>
    IF call.venue = HuobiName
    THEN /\ Placement.arg.Type =
              (IF call.side = Buy
               THEN (IF call.orderType = Market THEN "buy-market"
                     ELSE "buy-limit")
               ELSE (IF call.orderType = Market THEN "sell-market"
                     ELSE "sell-limit"))
         /\ Placement.arg.Price =
              (IF call.orderType = Limit THEN call.price ELSE 0)
    ELSE /\ Placement.arg.side = call.side
         /\ Placement.arg.type = call.orderType
         /\ Placement.arg.price =
              (IF call.orderType = Limit THEN call.price ELSE 0)
-----------------------------------------------------------------------------
(* Cancellation, checked under SpecOrder.                                   *)

CancelDone == call.op = "CancelOrder" /\ call.done

DecimalDigits(s) == s # <<>> /\ \A k \in 1..Len(s) : IsDigit(s[k])

\* C14: a finished CancelOrder has issued one cancel request carrying the
\* caller's order identifier (on ItBit, with the caller's wallet reference;
\* on HUOBIHADAX, the identifier's decimal value) and returns that request's
\* result; on HUOBIHADAX an identifier that is not a decimal integer gives
\* the parse error and no request.
C14_CancelCarriesCallersIdentifier ==
  CancelDone =>
    IF call.venue = ItBitName
    THEN /\ Len(call.net) = 1
         /\ call.net[1].name = "CancelExistingOrder"
         /\ call.net[1].arg.orderID = call.order.OrderID
         /\ call.net[1].arg.walletID = call.order.WalletAddress
         /\ call.err = call.cancel.err
    ELSE IF DecimalDigits(call.order.OrderID)
    THEN /\ Len(call.net) = 1
         /\ call.net[1].name = "CancelExistingOrder"
         /\ call.net[1].arg = DigitsValue(call.order.OrderID, 10, 0)
         /\ call.err = call.cancel.err
    ELSE /\ call.net = <<>>
         /\ call.err = ErrSyntax

\* C14 witness: a HUOBIHADAX cancellation whose identifier is not a number
\* has returned the parse error, although the venue would have accepted.
C14_Witness ==
  /\ CancelDone
  /\ call.venue = HuobiName
  /\ call.order.OrderID = <<"7", "x">>
  /\ call.cancel.err = Nil
  /\ call.err = ErrSyntax
  /\ call.net = <<>>
-----------------------------------------------------------------------------
(* Start, Run and the pair catalogue.  The host starts adapters, each       *)
(* Start registering a background task that runs Run; the host then waits   *)
(* on its wait group.  UpdateTradablePairs may also be called directly.     *)

\* The venue's answers to HUOBIHADAX's GetSymbols.
SymbolAnswers ==
  { [err |-> ErrTransport, symbols |-> <<>>],
    [err |-> Nil,
     symbols |-> << [BaseCurrency |-> "btc", QuoteCurrency |-> "usdt"] >>],
    [err |-> Nil,
     symbols |-> << [BaseCurrency |-> "btc", QuoteCurrency |-> "usdt"],
                    [BaseCurrency |-> "eth", QuoteCurrency |-> "btc"] >>] }

\* ItBit.FetchTradablePairs.
ItBitFetchTradablePairs ==
  [pairs |-> <<>>, err |-> ErrFunctionNotSupported, net |-> <<>>]

\* HUOBIHADAX.FetchTradablePairs, given the answer to GetSymbols.
HuobiFetchTradablePairs(sr) ==
  LET net == <<Request("GetSymbols", <<>>)>>
  IN IF sr.err # Nil
     THEN [pairs |-> <<>>, err |-> sr.err, net |-> net]
     ELSE [pairs |-> [x \in 1..Len(sr.symbols) |->
                        PairName(sr.symbols[x].BaseCurrency,
                                 sr.symbols[x].QuoteCurrency)],
           err |-> Nil, net |-> net]

\* exchange.Base.UpdatePairs: the list becomes the adapter's pair set.
UpdatePairs(e, pairs, enabled, force) ==
  [exch |-> [e EXCEPT !.EnabledPairs = {pairs[x] : x \in 1..Len(pairs)}],
   err |-> Nil]

\* exchange.Base.GetEnabledFeatures.
GetEnabledFeatures(e) == e.Features.Enabled

\* ItBit.UpdateTradablePairs.
ItBitUpdateTradablePairs(e, forceUpdate) ==
  [exch |-> e, err |-> ErrFunctionNotSupported, net |-> <<>>]

\* HUOBIHADAX.UpdateTradablePairs: fetch the catalogue, then UpdatePairs.
HuobiUpdateTradablePairs(e, forceUpdate, sr) ==
  LET f == HuobiFetchTradablePairs(sr)
  IN IF f.err # Nil
     THEN [exch |-> e, err |-> f.err, net |-> f.net]
     ELSE LET u == UpdatePairs(e, f.pairs, FALSE, forceUpdate)
          IN [exch |-> u.exch, err |-> u.err, net |-> f.net]

UpdateTradablePairs(v, e, forceUpdate, sr) ==
  IF v = ItBitName THEN ItBitUpdateTradablePairs(e, forceUpdate)
  ELSE HuobiUpdateTradablePairs(e, forceUpdate, sr)

\* Setup: the configuration may switch a supported feature off.
ConfiguredAdapters(v) ==
  { [Adapter(v) EXCEPT !.Features.Enabled.AutoPairUpdates = on] :
      on \in IF Features(v).Supports.AutoPairUpdates THEN BOOLEAN
             ELSE {FALSE} }

InitStart ==
  /\ tickers = [k \in Keys |-> NoEntry]
  /\ orderbooks = [k \in Keys |-> NoEntry]
  /\ call = NoCall
  /\ pc = [c \in Callers |-> "idle"]
  /\ local = [c \in Callers |-> NoLocal]
  /\ bucket = [v \in Venues |-> EmptyBuckets]
  /\ mutex = [v \in Venues |-> NoCaller]
  /\ job = [c \in Callers |-> NoJob]
  /\ \E i \in ConfiguredAdapters(ItBitName), h \in ConfiguredAdapters(HuobiName) :
       exch = [v \in Venues |-> IF v = ItBitName THEN i ELSE h]
  /\ wg = NoWaitGroup

StartFrame == UNCHANGED <<tickers, orderbooks, pc, local, bucket, mutex, job>>

\* A Start that spawns the task without adding it to the wait group.
StartUnregistered(v) ==
  /\ wg.host = "starting"
  /\ exch[v].task = "none"
  /\ exch' = [exch EXCEPT ![v].task = "spawned"]
  /\ UNCHANGED <<wg, call>>
  /\ StartFrame

\* Start: wg.Add(1), then the go statement.
Start(v) ==
  /\ wg.host = "starting"
  /\ exch[v].task = "none"
  /\ wg' = [wg EXCEPT !.count = @ + 1]
  /\ exch' = [exch EXCEPT ![v].task = "spawned"]
  /\ UNCHANGED call
  /\ StartFrame

\* The spawned goroutine begins: it calls Run.
RunEnter(v) ==
  /\ exch[v].task = "spawned"
  /\ exch' = [exch EXCEPT ![v].task = "run"]
  /\ UNCHANGED <<wg, call>>
  /\ StartFrame

\* ItBit.Run: nothing but a log line.
ItBitRun ==
  /\ exch[ItBitName].task = "run"
  /\ exch' = [exch EXCEPT ![ItBitName].task = "returned"]
  /\ UNCHANGED <<wg, call>>
  /\ StartFrame

\* HUOBIHADAX.Run: return unless auto pair updates are enabled, otherwise
\* UpdateTradablePairs(false), whose error is only logged.
HuobiRun ==
  LET e == exch[HuobiName]
  IN /\ e.task = "run"
     /\ IF ~GetEnabledFeatures(e).AutoPairUpdates
        THEN exch' = [exch EXCEPT ![HuobiName].task = "returned"]
        ELSE \E sr \in SymbolAnswers :
               LET out == HuobiUpdateTradablePairs(e, FALSE, sr)
               IN exch' = [exch EXCEPT ![HuobiName] =
                             [out.exch EXCEPT
                                !.task = "returned",
                                !.runRequests = @ + Len(out.net)]]
     /\ UNCHANGED <<wg, call>>
     /\ StartFrame

\* The goroutine after Run: wg.Done().
Done(v) ==
  /\ exch[v].task = "returned"
  /\ exch' = [exch EXCEPT ![v].task = "done", ![v].signalled = @ + 1]
  /\ wg' = [wg EXCEPT !.count = @ - 1]
  /\ UNCHANGED call
  /\ StartFrame

\* The host calls wg.Wait().
Wait ==
  /\ wg.host = "starting"
  /\ wg' = [wg EXCEPT !.host = "waiting"]
  /\ UNCHANGED <<exch, call>>
  /\ StartFrame

\* wg.Wait() returns once the counter is zero.
WaitReturn ==
  /\ wg.host = "waiting"
  /\ wg.count = 0
  /\ wg' = [wg EXCEPT !.host = "returned"]
  /\ UNCHANGED <<exch, call>>
  /\ StartFrame

\* UpdateTradablePairs called directly.
UpdateTradablePairsCall ==
  \E v \in Venues, forceUpdate \in BOOLEAN, sr \in SymbolAnswers :
    LET out == UpdateTradablePairs(v, exch[v], forceUpdate, sr)
    IN /\ exch' = [exch EXCEPT ![v] = out.exch]
       /\ call' = [op |-> "UpdateTradablePairs", venue |-> v,
                   forceUpdate |-> forceUpdate, err |-> out.err,
                   net |-> out.net]
       /\ UNCHANGED wg
       /\ StartFrame

NextStart ==
  \/ \E v \in Venues : Start(v) \/ RunEnter(v) \/ Done(v)
  \/ ItBitRun
  \/ HuobiRun
  \/ Wait
  \/ WaitReturn
  \/ UpdateTradablePairsCall

\* A goroutine that can step does, and so does a Wait that can return.
SpecStart ==
  /\ InitStart
  /\ [][NextStart]_vars
  /\ \A v \in Venues : WF_vars(RunEnter(v)) /\ WF_vars(Done(v))
  /\ WF_vars(ItBitRun)
  /\ WF_vars(HuobiRun)
  /\ WF_vars(WaitReturn)

AutoPairUpdatesOn(v) ==
  /\ exch[v].Features.Supports.AutoPairUpdates
  /\ exch[v].Features.Enabled.AutoPairUpdates

\* C15: on an adapter whose auto pair update feature is not both supported
\* and enabled, UpdateTradablePairs is a silent no-op, from Run or called
\* directly: the pair set is the configured one, Run has issued no symbol
\* catalogue request, and a direct call returned no error and issued no
\* request.  ItBit.UpdateTradablePairs returns ErrFunctionNotSupported, and
\* HUOBIHADAX.UpdateTradablePairs does not look at the feature.
C15_NoOpUnlessAutoPairUpdates ==
  \A v \in Venues :
    ~AutoPairUpdatesOn(v) =>
      /\ exch[v].EnabledPairs = ConfiguredPairs
      /\ exch[v].runRequests = 0
      /\ (call.op = "UpdateTradablePairs" /\ call.venue = v) =>
           (call.err = Nil /\ call.net = <<>>)

\* The background tasks that are registered and have not signalled yet.
ActiveTasks == {v \in Venues : exch[v].task \in {"spawned", "run", "returned"}}

\* C20: the wait group's counter is the number of started tasks that have
\* not signalled (a task is counted before it begins); a task signals once,
\* and only after its Run has returned; a host whose wait returned finds no
\* started task unfinished; and a host that waits eventually proceeds,
\* whether or not the pair catalogue refresh succeeded.
C20_WaitGroupCoversRun ==
  /\ [](wg.count = Cardinality(ActiveTasks))
  /\ [](\A v \in Venues :
          /\ exch[v].signalled <= 1
          /\ exch[v].signalled = 1 <=> exch[v].task = "done")
  /\ [](wg.host = "returned" =>
          \A v \in Venues : exch[v].task \in {"none", "done"})
  /\ [][\A v \in Venues :
          exch'[v].signalled # exch[v].signalled =>
            exch[v].task = "returned"]_vars
  /\ (wg.host = "waiting") ~> (wg.host = "returned")

\* C20 witness: both adapters were started, HUOBIHADAX's Run asked for the
\* symbol catalogue and failed (the pairs are still the configured ones),
\* both tasks have signalled and the host's wait has returned.
C20_Witness ==
  /\ wg.host = "returned"
  /\ wg.count = 0
  /\ \A v \in Venues : exch[v].task = "done" /\ exch[v].signalled = 1
  /\ exch[HuobiName].runRequests = 1
  /\ exch[HuobiName].EnabledPairs = ConfiguredPairs
  /\ call = NoCall
-----------------------------------------------------------------------------
(* The client reference of a HUOBIHADAX order, checked under SpecOrder.     *)

\* C16: a HUOBIHADAX SubmitOrder whose client reference does not parse as
\* an integer returns a validation error and has issued no request.  The
\* wrapper overwrites ParseInt's error and submits with account id 0.
C16_MalformedClientRefRejected ==
  (/\ SubmitDone
   /\ call.venue = HuobiName
   /\ ParseInt(call.clientID, 0).err # Nil) =>
     /\ call.err \in {ErrSyntax, ErrUnsupportedOrderType}
     /\ call.net = <<>>
-----------------------------------------------------------------------------
(* ItBit's depth conversion, checked under Spec.                            *)

\* What the claim expects of one field of a level: the number the string
\* writes, or zero when it could not be parsed.
ExpectedField(str) ==
  IF DecimalDigits(str) /\ DigitsValue(str, 10, 0) <= MaxFloat64
  THEN DigitsValue(str, 10, 0)
  ELSE 0

ExpectedLevels(levels, raw) ==
  /\ Len(levels) = Len(raw)
  /\ \A x \in 1..Len(raw) :
       /\ levels[x].Price = ExpectedField(raw[x][1])
       /\ levels[x].Amount = ExpectedField(raw[x][2])

\* C17: an ItBit UpdateOrderbook whose request succeeded returns no error;
\* the book it stored and returned has the payload's bid and ask levels, as
\* many and in the same order, every field holding the converted number and
\* a field that could not be parsed holding zero.  A string beyond the range
\* of a float64 fails to parse and the wrapper keeps ParseFloat's +Inf.
C17_UnparsableLevelsAreZero ==
  (/\ call.op = "UpdateOrderbook"
   /\ call.venue = ItBitName
   /\ call.answer.err = Nil) =>
     /\ call.err = Nil
     /\ orderbooks[CallKey(call)] = Entry(call.ret)
     /\ ExpectedLevels(call.ret.Bids, call.answer.depth.Bids)
     /\ ExpectedLevels(call.ret.Asks, call.answer.depth.Asks)
-----------------------------------------------------------------------------
(* Overlapping refreshes of one key, checked under SpecRace.                *)

\* C19: a refresh that has stored its snapshot returns that snapshot, the
\* one converted from its own response, whatever another caller does to the
\* same key meanwhile.  The wrappers store and then read the key back in
\* two separate calls; another refresh's store may fall between them.
C19_ReturnsOwnSnapshot ==
  \A self \in Callers :
    (/\ pc[self] = "done"
     /\ local[self].op \in {"UpdateTicker", "UpdateOrderbook"}
     /\ local[self].stored) =>
       /\ local[self].err = Nil
       /\ local[self].ret = local[self].snapshot
-----------------------------------------------------------------------------
(* The lifecycle of a submission, checked under SpecOrder.                  *)

Placements == {x \in 1..Len(call.net) : call.net[x].name \in PlacementRequests}

Accepted == PlacementSent /\ call.err = Nil /\ call.ret.IsOrderPlaced

RejectedByVenue == PlacementSent /\ call.err # Nil /\ ~call.ret.IsOrderPlaced

RejectedBeforeSubmission ==
  ~PlacementSent /\ call.err # Nil /\ ~call.ret.IsOrderPlaced

\* C18: a finished SubmitOrder has sent at most one placement, as its last
\* request, and only for a combination that passed validation and, on
\* ItBit, after the wallets were listed and one of them qualified; and it
\* ended in exactly one of: accepted, rejected by the venue, rejected before
\* submission.  ItBit.SubmitOrder validates nothing (see C2), so it sends
\* placements of combinations that are not valid.
C18_PlacementOnlyAfterValidation ==
  SubmitDone =>
    /\ Cardinality(Placements) <= 1
    /\ PlacementSent =>
         /\ Placements = {Len(call.net)}
         /\ ValidCombination(call.side, call.orderType)
         /\ call.venue = ItBitName =>
              /\ Len(call.net) = 2
              /\ call.net[1].name = "GetWallets"
              /\ \E x \in QualifyingWallets(call.wallets.wallets,
                                            call.pair.FirstCurrency,
                                            call.amount) :
                   Placement.arg.wallet = call.wallets.wallets[x].ID
    /\ \/ Accepted /\ ~RejectedByVenue /\ ~RejectedBeforeSubmission
       \/ ~Accepted /\ RejectedByVenue /\ ~RejectedBeforeSubmission
       \/ ~Accepted /\ ~RejectedByVenue /\ RejectedBeforeSubmission

====
